---- MODULE Spec2Model ----
(***************************************************************************)
(* Job Search Agent: the LangGraph workflow of src/src/graph.py, its nodes *)
(* (src/src/nodes.py), the state channels of src/src/state.py and the HTTP *)
(* surface process_job_search of src/src/api.py.                           *)
(*                                                                         *)
(* The compiled graph runs in supersteps: every node triggered by a node   *)
(* that finished in the previous superstep is launched, the launched nodes *)
(* run concurrently, and their returned dicts are applied to the channels  *)
(* only when all of them have returned.  A node that raises aborts the     *)
(* invoke call: the exception leaves invoke once the nodes still running   *)
(* have ended, the returned dicts of that superstep are not applied, and   *)
(* the caller gets no state.                                               *)
(*                                                                         *)
(* Records are abstracted to their id: a Job is its id, a Job_Summary is   *)
(* [id |-> x] and a Job_Feedback is [job_id |-> x, similarity |-> v].  A   *)
(* row of joblisting is [id |-> x], a row of jobanalysis is                *)
(* [job_id |-> x, similarity_score |-> v].  A class or field that          *)
(* the source spells in two ways (Job_Feedback and Job_Feadback, id and    *)
(* job_id of a feedback, the dataset and the dataset id that               *)
(* linkedin_scrapper returns) is taken as one.  The adapters (LLM chains,  *)
(* Apify, pypdf, the database session) are inputs: each call either        *)
(* returns or raises.                                                      *)
(***************************************************************************)
EXTENDS Integers, Sequences, FiniteSets, TLC

\* ---------------------------------------------------------------- bounds
MaxJobs == 2
MaxExec == 2
MaxSaves == 2
MaxRuns == 2
MaxRequestTime == 1

\* scraping_tools.py 168-169: the arguments job_scraping passes
wait_seconds == 20
poll_interval == 2

Ids == {"A", "B", "C"}

\* the limit a structured query can carry: {} is null, {v} is the number v
LimitVals == {0, 1, 2, 3, 4, 1000}
Limits == {{}} \cup {{v} : v \in LimitVals}

\* the resume documents a caller can hand over, by content
Docs == {"resumeX", "resumeY"}

\* nodes.py 113: the path resume_text_extractor opens
HardCodedResumePath == "E:/Genai_Projects/Job_search_Agent/Resume.pdf"

\* nodes.py 116-120: the text pypdf extracts from the pages of a document
TextOf(doc) ==
    CASE doc = "resumeX" -> "text of resumeX"
      [] doc = "resumeY" -> "text of resumeY"
      [] doc = HardCodedResumePath -> "text of Resume.pdf"

\* ------------------------------------------------------------- the graph
START == "__start__"
END == "__end__"

Nodes == {"job_searching_node", "resume_text_extractor",
          "extract_fields_from_resume", "extract_fields_from_job_desc",
          "Feedback_and_similarity"}

EdgesJoinShortcut ==
    {<<START, "job_searching_node">>,
     <<"job_searching_node", "extract_fields_from_job_desc">>,
     <<START, "resume_text_extractor">>,
     <<"resume_text_extractor", "extract_fields_from_resume">>,
     <<"extract_fields_from_job_desc", "Feedback_and_similarity">>,
     <<"resume_text_extractor", "Feedback_and_similarity">>,
     <<"extract_fields_from_resume", "Feedback_and_similarity">>,
     <<"Feedback_and_similarity", END>>}

EdgesResumeFromStart ==
    {<<START, "job_searching_node">>,
     <<"job_searching_node", "extract_fields_from_job_desc">>,
     <<START, "resume_text_extractor">>,
     <<START, "extract_fields_from_resume">>,
     <<"extract_fields_from_job_desc", "Feedback_and_similarity">>,
     <<"extract_fields_from_resume", "Feedback_and_similarity">>,
     <<"Feedback_and_similarity", END>>}

\* graph.py: the add_edge calls
Edges ==
    {<<START, "job_searching_node">>,
     <<"job_searching_node", "extract_fields_from_job_desc">>,
     <<START, "resume_text_extractor">>,
     <<"resume_text_extractor", "extract_fields_from_resume">>,
     <<"extract_fields_from_job_desc", "Feedback_and_similarity">>,
     <<"extract_fields_from_resume", "Feedback_and_similarity">>,
     <<"Feedback_and_similarity", END>>}

\* the nodes an edge leads to from a node of `done`
Triggered(done) == {n \in Nodes : \E m \in done : <<m, n>> \in Edges}

\* ------------------------------------------------------------- the state
VARIABLES
    caller,              \* "api" (process_job_search) or "direct" (main-style invoke)
    reqPc,               \* position of the caller
    filenameOk,          \* resume.filename.endswith('.pdf')
    tempFile,            \* "none", "exists", "deleted"
    temp_resume_path,    \* local of process_job_search: "None" or "tmp", the file's name
    unlinkCalled,        \* os.unlink(temp_resume_path) was called
    httpStatus,          \* 0 while unanswered, else 200 or 500
    response,            \* the JobSearchResponse returned, or NoResponse
    dbSaved,             \* save_workflow_results committed
    dbErrorLogged,       \* "Failed to save to database" was logged
    db,                  \* the tables joblisting, jobanalysis and searchhistory
    runNo,               \* the number of invoke calls made on the Workflow instance
    prevVisited,         \* the listing ids of this run that were in a dedup set
                         \* when the run before it ended
    seedVisited,         \* the visited_ids set the caller seeds
    seedFeedback,        \* the visited_ids_feedback set the caller seeds
    resume,              \* the document behind the seeded 'resume_path', or "none"
    searchOut,           \* the listings the retrieval adapter yields when it succeeds
    llmLimit,            \* the limit the structured query carries before validation
    limitSeen,           \* the limit linkedin_scrapper was called with
    outcome,             \* "init", "running", "completed", "failed"
    failedNode,          \* the node whose exception leaves invoke
    runningAtError,      \* the nodes that were running when that exception was raised
    final_state,         \* what invoke returned to the caller
    tasks,               \* the nodes of the current superstep
    status,              \* per node: PENDING, RUNNING, DONE, ERROR
    execCount,           \* per node: how many times it was launched
    ret,                 \* per node: the dict it returned, not yet applied
    written,             \* the scalar channels that hold a value
    jobs, resume_text, resume_fields,
    job_summaries, job_feedbacks,
    visited_ids, visited_ids_feedback,
    jd_i, job_summary_model_list,     \* locals of extract_fields_from_job_desc
    fb_i, job_feedback_model_list,    \* locals of Feedback_and_similarity
    invoked,             \* per id: calls of job_summary_agent.invoke
    fbInvoked,           \* per id: calls of resume_feedback_agent.invoke
    pollPc,              \* job_scraping: "idle", "get", "check", "sleep", "fetched",
                         \* "returned", "raised"
    now,                 \* time.time(), in seconds
    start_time,          \* local of fetch_dataset_items_with_wait
    data,                \* local of fetch_dataset_items_with_wait: response.json()
    polls,               \* requests.get calls made by fetch_dataset_items_with_wait
    jobs_data            \* what job_scraping returned, or NoData

reqVars == <<caller, reqPc, filenameOk, tempFile, temp_resume_path, unlinkCalled, httpStatus, response,
             dbSaved, dbErrorLogged>>
dbVars == <<db>>
runsVars == <<runNo, prevVisited>>
inputVars == <<seedVisited, seedFeedback, resume, searchOut>>
limitVars == <<llmLimit, limitSeen>>
runVars == <<outcome, failedNode, runningAtError, final_state, tasks, status,
             execCount, ret>>
chanVars == <<written, jobs, resume_text, resume_fields, job_summaries,
              job_feedbacks, visited_ids, visited_ids_feedback>>
jdVars == <<jd_i, job_summary_model_list, invoked>>
fbVars == <<fb_i, job_feedback_model_list, fbInvoked>>

pollVars == <<pollPc, now, start_time, data, polls, jobs_data>>

vars == <<reqVars, dbVars, runsVars, inputVars, limitVars, runVars, chanVars, jdVars, fbVars,
          pollVars>>

NoState == [set |-> FALSE]
NoResponse == [success |-> FALSE]

\* the tables after init_db: joblisting and jobanalysis in row order,
\* searchhistory as its number of rows
EmptyDb == [joblisting |-> <<>>, jobanalysis |-> <<>>, searchhistory |-> 0]

Lists == UNION {[1..n -> Ids] : n \in 0..MaxJobs}

SeqIds(s) == {s[k] : k \in 1..Len(s)}
SummaryIds(s) == {s[k].id : k \in 1..Len(s)}
FeedbackIds(s) == {s[k].job_id : k \in 1..Len(s)}

\* ------------------------------------------------------------ the merges
\* state.py: Annotated[List[...], operator.add] replaced by an overwrite
ReduceOverwrite(old, new) == new

\* state.py: Annotated[List[...], operator.add]
Reduce(old, new) == old \o new

\* ------------------------------------------------- the matching adapter
\* the scores the model behind resume_feedback_agent can answer with
SimVals == {-1, 50, 101}

\* structure_outputs.py 213-216: similarity: int = Field(..., description=...)
\* declares no bound, every integer passes the validation
SimilarityValid(v) == v \in Int

\* -------------------------------------------------------- the dedup sets
ShouldProcessAlways(id, visited_set) == TRUE

\* nodes.py: `if job.id not in visited_set`
ShouldProcess(id, visited_set) == id \notin visited_set

AddVisitedForgets(visited_set, id) == visited_set

AddVisitedReplaces(visited_set, id) == {id}

\* nodes.py: `visited_set.add(job.id)`, in place on the set the state holds
AddVisited(visited_set, id) == visited_set \cup {id}

\* ------------------------------------------------ the structured query
\* structure_outputs.py: limit: int | None = Field(default=3, le=3, ge=1);
\* None passes, a number outside 1..3 is a validation error
LimitValid(raw) == \A v \in raw : 1 <= v /\ v <= 3

NoData == [returned |-> FALSE]

\* job_scraping has not been called
PollIdle ==
    /\ pollPc = "idle"
    /\ now = 0
    /\ start_time = 0
    /\ data = <<>>
    /\ polls = 0
    /\ jobs_data = NoData

\* ------------------------------------------------------------------ Init
Init ==
    /\ caller \in {"api", "direct"}
    /\ filenameOk \in BOOLEAN
    /\ caller = "direct" => filenameOk
    /\ reqPc = IF caller = "api" THEN "validate" ELSE "invoke"
    /\ tempFile = "none"
    /\ temp_resume_path = "None"
    /\ unlinkCalled = FALSE
    /\ httpStatus = 0
    /\ response = NoResponse
    /\ dbSaved = FALSE
    /\ dbErrorLogged = FALSE
    /\ db = EmptyDb
    /\ runNo = 1
    /\ prevVisited = {}
    /\ seedVisited \in SUBSET Ids
    /\ seedFeedback \in SUBSET Ids
    \* api.py and main.py seed both sets with set()
    /\ caller = "api" => seedVisited = {} /\ seedFeedback = {}
    \* api.py 173-186: 'resume_path' names the temporary copy of the upload;
    \* main.py seeds no document
    /\ resume \in Docs \cup {"none"}
    /\ caller = "api" <=> resume \in Docs
    /\ searchOut \in Lists
    /\ llmLimit = {}
    /\ limitSeen = [called |-> FALSE, limit |-> {}]
    /\ outcome = "init"
    /\ failedNode = "none"
    /\ runningAtError = {}
    /\ final_state = NoState
    /\ tasks = {}
    /\ status = [n \in Nodes |-> "PENDING"]
    /\ execCount = [n \in Nodes |-> 0]
    /\ ret = [n \in Nodes |-> <<>>]
    /\ written = {}
    /\ jobs = <<>>
    /\ resume_text = "unset"
    /\ resume_fields = "unset"
    /\ job_summaries = <<>>
    /\ job_feedbacks = <<>>
    /\ visited_ids = {}
    /\ visited_ids_feedback = {}
    /\ jd_i = 1
    /\ job_summary_model_list = <<>>
    /\ fb_i = 1
    /\ job_feedback_model_list = <<>>
    /\ invoked = [x \in Ids |-> 0]
    /\ fbInvoked = [x \in Ids |-> 0]
    /\ PollIdle

\* --------------------------------------------------------- the scheduler
Raise(n) ==
    /\ status' = [status EXCEPT ![n] = "ERROR"]
    /\ failedNode' = IF failedNode = "none" THEN n ELSE failedNode
    /\ runningAtError' = IF failedNode = "none"
                           THEN {m \in tasks \ {n} : status[m] = "RUNNING"}
                           ELSE runningAtError

Return(n, value) ==
    /\ status' = [status EXCEPT ![n] = "DONE"]
    /\ ret' = [ret EXCEPT ![n] = value]

StepCompleteIgnoringErrors == \A n \in tasks : status[n] # "RUNNING"

StepCompleteFirstDone == \E n \in tasks : status[n] = "DONE"

StepCompleteAllNodes == \A n \in Nodes : status[n] = "DONE"

\* a superstep is over, and its writes are applied, when every launched node returned
StepComplete == \A n \in tasks : status[n] = "DONE"

\* the node returned in this superstep: its dict is applied at the end of it
Applied(n) == n \in tasks /\ status[n] = "DONE"

Finished == {n \in tasks : status[n] = "DONE"}

\* the launch of the nodes of a superstep, all at once
Launch(next) ==
    /\ tasks' = next
    /\ status' = [n \in Nodes |-> IF n \in next THEN "RUNNING" ELSE status[n]]
    /\ execCount' = [n \in Nodes |-> IF n \in next THEN execCount[n] + 1 ELSE execCount[n]]
    /\ jd_i' = IF "extract_fields_from_job_desc" \in next THEN 1 ELSE jd_i
    /\ job_summary_model_list' =
          IF "extract_fields_from_job_desc" \in next THEN <<>> ELSE job_summary_model_list
    /\ fb_i' = IF "Feedback_and_similarity" \in next THEN 1 ELSE fb_i
    /\ job_feedback_model_list' =
          IF "Feedback_and_similarity" \in next THEN <<>> ELSE job_feedback_model_list

\* api.py 165-177: the file type check and the temporary copy of the upload.
\* The HTTPException(400) is raised inside the try block, whose
\* `except Exception` handler catches it.
ValidateFile ==
    /\ reqPc = "validate"
    /\ IF filenameOk
         THEN \/ \* the file is made, written and named
                 /\ tempFile' = "exists"
                 /\ temp_resume_path' = "tmp"
                 /\ reqPc' = "invoke"
              \/ \* resume.read() or tmp.write(content) raises in the file
                 \* NamedTemporaryFile(delete=False) has made, before
                 \* line 176 names it
                 /\ tempFile' = "exists"
                 /\ temp_resume_path' = temp_resume_path
                 /\ reqPc' = "error"
         ELSE /\ tempFile' = tempFile
              /\ temp_resume_path' = temp_resume_path
              /\ reqPc' = "error"
    /\ UNCHANGED <<caller, filenameOk, unlinkCalled, httpStatus, response, dbSaved, dbErrorLogged>>
    /\ UNCHANGED <<pollVars, inputVars, dbVars, runsVars, limitVars, runVars, chanVars, jdVars, fbVars>>

ChannelAtStartKept(left, seeded) == left

\* graph.py 74: workflow.compile() is given no checkpointer, so invoke
\* builds its channels anew: a channel starts with what initial_state seeds
\* (or empty), whatever a run before left in it
ChannelAtStart(left, seeded) == seeded

\* api.py 184-194, main.py 35-43: workflow.app.invoke(initial_state): the
\* seeded keys are written to their channels (the sets by reference) and the
\* nodes START leads to are launched
Invoke ==
    /\ reqPc = "invoke"
    /\ reqPc' = "running"
    /\ outcome' = "running"
    /\ visited_ids' = ChannelAtStart(visited_ids, seedVisited)
    /\ visited_ids_feedback' = ChannelAtStart(visited_ids_feedback, seedFeedback)
    /\ written' = ChannelAtStart(written, {})
    /\ jobs' = ChannelAtStart(jobs, <<>>)
    /\ resume_text' = ChannelAtStart(resume_text, "unset")
    /\ resume_fields' = ChannelAtStart(resume_fields, "unset")
    /\ job_summaries' = ChannelAtStart(job_summaries, <<>>)
    /\ job_feedbacks' = ChannelAtStart(job_feedbacks, <<>>)
    /\ Launch(Triggered({START}))
    /\ UNCHANGED <<caller, filenameOk, tempFile, temp_resume_path, unlinkCalled,
                   httpStatus, response, dbSaved, dbErrorLogged>>
    /\ UNCHANGED <<pollVars, inputVars, dbVars, runsVars, limitVars, failedNode, runningAtError, final_state, ret,
                   invoked, fbInvoked>>

FinalStateBeforeApply ==
    [set |-> TRUE,
     jobs |-> jobs, resume_text |-> resume_text, resume_fields |-> resume_fields,
     job_summaries |-> job_summaries, job_feedbacks |-> job_feedbacks,
     visited_ids |-> visited_ids, visited_ids_feedback |-> visited_ids_feedback]

\* what invoke returns: the channel values after the last superstep's writes
FinalState ==
    [set |-> TRUE,
     jobs |-> jobs', resume_text |-> resume_text', resume_fields |-> resume_fields',
     job_summaries |-> job_summaries', job_feedbacks |-> job_feedbacks',
     visited_ids |-> visited_ids', visited_ids_feedback |-> visited_ids_feedback']

WriterResumeTwice(field) ==
    CASE field = "jobs" -> "job_searching_node"
      [] field = "resume_text" -> "resume_text_extractor"
      [] field = "resume_fields" -> "resume_text_extractor"

\* the node whose returned dict has the key (nodes.py 85, 124, 159)
Writer(field) ==
    CASE field = "jobs" -> "job_searching_node"
      [] field = "resume_text" -> "resume_text_extractor"
      [] field = "resume_fields" -> "extract_fields_from_resume"

\* the end of a superstep: the returned dicts are applied to the channels
\* (jobs, resume_text, resume_fields and the two sets are last-value channels,
\* job_summaries and job_feedbacks are reduced with operator.add), then the
\* nodes that an edge from a finished node leads to are launched; when there
\* is none, invoke returns the channel values
AfterTick ==
    /\ outcome = "running"
    /\ tasks # {}
    /\ StepComplete
    /\ jobs' = IF Applied(Writer("jobs")) THEN ret[Writer("jobs")] ELSE jobs
    /\ resume_text' = IF Applied(Writer("resume_text"))
                        THEN ret[Writer("resume_text")][1] ELSE resume_text
    /\ resume_fields' = IF Applied(Writer("resume_fields"))
                          THEN ret[Writer("resume_fields")][1] ELSE resume_fields
    /\ job_summaries' = IF Applied("extract_fields_from_job_desc")
                          THEN Reduce(job_summaries, ret["extract_fields_from_job_desc"])
                          ELSE job_summaries
    /\ job_feedbacks' = IF Applied("Feedback_and_similarity")
                          THEN Reduce(job_feedbacks, ret["Feedback_and_similarity"])
                          ELSE job_feedbacks
    /\ written' = written
                  \cup (IF Applied(Writer("jobs")) THEN {"jobs"} ELSE {})
                  \cup (IF Applied(Writer("resume_text")) THEN {"resume_text"} ELSE {})
                  \cup (IF Applied(Writer("resume_fields")) THEN {"resume_fields"} ELSE {})
    \* 'visited_ids': visited_set is the set object the channel already holds
    /\ UNCHANGED <<visited_ids, visited_ids_feedback>>
    /\ ret' = [n \in Nodes |-> <<>>]
    /\ IF Triggered(Finished) = {}
         THEN /\ outcome' = "completed"
              /\ final_state' = FinalState
              /\ reqPc' = IF caller = "api" THEN "save" ELSE "done"
              /\ tasks' = {}
              /\ UNCHANGED <<status, execCount, jd_i, job_summary_model_list,
                             fb_i, job_feedback_model_list>>
         ELSE /\ Launch(Triggered(Finished))
              /\ UNCHANGED <<outcome, final_state, reqPc>>
    /\ UNCHANGED <<caller, filenameOk, tempFile, temp_resume_path, unlinkCalled,
                   httpStatus, response, dbSaved, dbErrorLogged>>
    /\ UNCHANGED <<pollVars, inputVars, dbVars, runsVars, limitVars, failedNode, runningAtError, invoked, fbInvoked>>

SiblingsEndedNoWait == TRUE

\* the executor is left only when every node it started has ended
SiblingsEnded == \A n \in tasks : status[n] # "RUNNING"

StateOnRaisePartial ==
    [set |-> TRUE,
     jobs |-> jobs, resume_text |-> resume_text, resume_fields |-> resume_fields,
     job_summaries |-> job_summaries \o job_summary_model_list,
     job_feedbacks |-> job_feedbacks \o job_feedback_model_list,
     visited_ids |-> visited_ids, visited_ids_feedback |-> visited_ids_feedback]

\* `final_state = workflow.app.invoke(initial_state)` when invoke raises:
\* the assignment does not happen
StateOnRaise == final_state

OnWorkflowErrorSave == "save"

\* api.py 194, 249-254: the exception of invoke leaves the try block at line
\* 194 for `except Exception`; lines 196-247 are not run
OnWorkflowError == "error"

\* a node of the superstep raised: once the nodes still running have ended,
\* the exception leaves invoke; nothing of the superstep is applied and the
\* caller's final_state is never assigned
PanicOrProceed ==
    /\ outcome = "running"
    /\ \E n \in tasks : status[n] = "ERROR"
    /\ SiblingsEnded
    /\ outcome' = "failed"
    /\ final_state' = StateOnRaise
    /\ reqPc' = IF caller = "api" THEN OnWorkflowError ELSE "done"
    /\ UNCHANGED <<caller, filenameOk, tempFile, temp_resume_path, unlinkCalled,
                   httpStatus, response, dbSaved, dbErrorLogged>>
    /\ UNCHANGED <<pollVars, inputVars, dbVars, runsVars, limitVars, chanVars, jdVars, fbVars>>
    /\ UNCHANGED <<failedNode, runningAtError, tasks, status, execCount, ret>>

\* -------------------------------------------------------------- the nodes
\* nodes.py 39-89: job_input_agent structures the query (a limit outside
\* 1..3 fails the validation of JobInfo), model_dump(exclude_none=True)
\* builds the scraper's input, the listings are read and returned as 'jobs'
job_searching_node ==
    LET n == "job_searching_node" IN
    /\ status[n] = "RUNNING"
    /\ \/ \* the model call itself fails: no structured query
          /\ Raise(n)
          /\ UNCHANGED <<llmLimit, limitSeen, ret>>
       \/ \E raw \in Limits :
            /\ llmLimit' = raw
            /\ IF LimitValid(raw)
                 THEN /\ limitSeen' = [called |-> TRUE, limit |-> raw]
                      /\ \/ Return(n, searchOut) /\ UNCHANGED <<failedNode, runningAtError>>
                         \/ Raise(n) /\ UNCHANGED ret
                 ELSE \* pydantic ValidationError
                      /\ Raise(n)
                      /\ UNCHANGED <<limitSeen, ret>>
    /\ UNCHANGED <<pollVars, reqVars, inputVars, dbVars, runsVars, chanVars, jdVars, fbVars>>
    /\ UNCHANGED <<outcome, final_state, tasks, execCount>>

\* nodes.py 91-131: the text of the PDF at the path the node names; the
\* state, and with it the seeded 'resume_path', is not read
resume_text_extractor ==
    LET n == "resume_text_extractor" IN
    /\ status[n] = "RUNNING"
    /\ \/ Return(n, <<TextOf(HardCodedResumePath)>>) /\ UNCHANGED <<failedNode, runningAtError>>
       \/ Raise(n) /\ UNCHANGED ret
    /\ UNCHANGED <<pollVars, reqVars, inputVars, dbVars, runsVars, limitVars, chanVars, jdVars, fbVars>>
    /\ UNCHANGED <<outcome, final_state, tasks, execCount>>

\* nodes.py 133-163: state['resume_text'] is read, resume_agent extracts the fields
extract_fields_from_resume ==
    LET n == "extract_fields_from_resume" IN
    /\ status[n] = "RUNNING"
    /\ \/ /\ "resume_text" \in written
          /\ Return(n, <<"fields">>)
          /\ UNCHANGED <<failedNode, runningAtError>>
       \/ Raise(n) /\ UNCHANGED ret
    /\ UNCHANGED <<pollVars, reqVars, inputVars, dbVars, runsVars, limitVars, chanVars, jdVars, fbVars>>
    /\ UNCHANGED <<outcome, final_state, tasks, execCount>>

\* nodes.py 165-211: one turn of `for job in state['jobs']`, or the return
\* after the last turn.  The id is added to the set before the adapter is
\* called; when the adapter raises, the list built so far is dropped.
extract_fields_from_job_desc ==
    LET n == "extract_fields_from_job_desc" IN
    /\ status[n] = "RUNNING"
    /\ IF "jobs" \notin written
         THEN \* state['jobs'] raises KeyError
              /\ Raise(n)
              /\ UNCHANGED <<ret, visited_ids, jdVars>>
         ELSE IF jd_i <= Len(jobs)
         THEN LET job == jobs[jd_i] IN
              IF ShouldProcess(job, visited_ids)
                THEN /\ visited_ids' = AddVisited(visited_ids, job)
                     /\ invoked' = [invoked EXCEPT ![job] = @ + 1]
                     /\ \/ /\ job_summary_model_list' =
                                 Append(job_summary_model_list, [id |-> job])
                           /\ jd_i' = jd_i + 1
                           /\ UNCHANGED <<status, failedNode, runningAtError, ret>>
                        \/ /\ Raise(n)
                           /\ UNCHANGED <<ret, jd_i, job_summary_model_list>>
                ELSE /\ jd_i' = jd_i + 1
                     /\ UNCHANGED <<status, failedNode, runningAtError, ret, visited_ids,
                                    job_summary_model_list, invoked>>
         ELSE \* the locals end with the call
              /\ Return(n, job_summary_model_list)
              /\ job_summary_model_list' = <<>>
              /\ jd_i' = 1
              /\ UNCHANGED <<failedNode, runningAtError, visited_ids, invoked>>
    /\ UNCHANGED <<pollVars, reqVars, inputVars, dbVars, runsVars, limitVars, fbVars>>
    /\ UNCHANGED <<outcome, final_state, tasks, execCount>>
    /\ UNCHANGED <<written, jobs, resume_text, resume_fields, job_summaries,
                   job_feedbacks, visited_ids_feedback>>

FeedbackVisitedShared == visited_ids

\* nodes.py 232: visited_set = state['visited_ids_feedback']
FeedbackVisited == visited_ids_feedback

\* nodes.py 213-271: one turn of `for job in state['job_summaries']`, or the
\* return after the last turn
Feedback_and_similarity ==
    LET n == "Feedback_and_similarity" IN
    /\ status[n] = "RUNNING"
    /\ IF fb_i <= Len(job_summaries)
         THEN LET job == job_summaries[fb_i] IN
              IF ShouldProcess(job.id, FeedbackVisited)
                THEN /\ visited_ids_feedback' = AddVisited(FeedbackVisited, job.id)
                     /\ IF "resume_fields" \notin written
                          THEN \* state['resume_fields'] raises KeyError
                               /\ Raise(n)
                               /\ UNCHANGED <<ret, fbVars>>
                          ELSE /\ fbInvoked' = [fbInvoked EXCEPT ![job.id] = @ + 1]
                               /\ \/ /\ \E v \in SimVals :
                                           /\ SimilarityValid(v)
                                           /\ job_feedback_model_list' =
                                                 Append(job_feedback_model_list,
                                                        [job_id |-> job.id, similarity |-> v])
                                     /\ fb_i' = fb_i + 1
                                     /\ UNCHANGED <<status, failedNode, runningAtError, ret>>
                                  \/ /\ Raise(n)
                                     /\ UNCHANGED <<ret, fb_i, job_feedback_model_list>>
                ELSE /\ fb_i' = fb_i + 1
                     /\ UNCHANGED <<status, failedNode, runningAtError, ret, visited_ids_feedback,
                                    job_feedback_model_list, fbInvoked>>
         ELSE /\ Return(n, job_feedback_model_list)
              /\ job_feedback_model_list' = <<>>
              /\ fb_i' = 1
              /\ UNCHANGED <<failedNode, runningAtError, visited_ids_feedback, fbInvoked>>
    /\ UNCHANGED <<pollVars, reqVars, inputVars, dbVars, runsVars, limitVars, jdVars>>
    /\ UNCHANGED <<outcome, final_state, tasks, execCount>>
    /\ UNCHANGED <<written, jobs, resume_text, resume_fields, job_summaries,
                   job_feedbacks, visited_ids>>

\* ------------------------------------------------- process_job_search
OnDbErrorPropagate == "error"

\* api.py 210-212: `except Exception as db_error`: logged, execution continues
OnDbError == "respond"

\* db_operations.py 19-50: a listing whose id has a row is skipped, else a
\* row is added (session.get flushes the rows added before it)
save_job_listing(joblisting, job) ==
    IF \E k \in 1..Len(joblisting) : joblisting[k].id = job
      THEN joblisting
      ELSE Append(joblisting, [id |-> job])

save_job_analysis_insert(jobanalysis, job_id, summary, feedback) ==
    Append(jobanalysis, [job_id |-> job_id, similarity_score |-> feedback.similarity])

\* db_operations.py 53-95: the first row with this job_id is updated, else a
\* row is added
save_job_analysis(jobanalysis, job_id, summary, feedback) ==
    IF \E k \in 1..Len(jobanalysis) : jobanalysis[k].job_id = job_id
      THEN LET first == CHOOSE k \in 1..Len(jobanalysis) :
                            /\ jobanalysis[k].job_id = job_id
                            /\ \A j \in 1..(k - 1) : jobanalysis[j].job_id # job_id
           IN [jobanalysis EXCEPT ![first] =
                   [job_id |-> job_id, similarity_score |-> feedback.similarity]]
      ELSE Append(jobanalysis, [job_id |-> job_id, similarity_score |-> feedback.similarity])

\* db_operations.py 195-196: `for job in jobs: save_job_listing(session, job)`
RECURSIVE SaveListings(_, _)
SaveListings(joblisting, job_list) ==
    IF job_list = <<>> THEN joblisting
    ELSE SaveListings(save_job_listing(joblisting, Head(job_list)), Tail(job_list))

\* the ids of a list in the order of their first occurrence, those of `seen` left out
RECURSIVE FirstNew(_, _)
FirstNew(s, seen) ==
    IF s = <<>> THEN <<>>
    ELSE IF Head(s) \in seen THEN FirstNew(Tail(s), seen)
    ELSE <<Head(s)>> \o FirstNew(Tail(s), seen \cup {Head(s)})

\* the keys of summaries_dict, in the order of their first insertion
DictKeys(summaries) == FirstNew([k \in 1..Len(summaries) |-> summaries[k].id], {})

\* db_operations.py 199: summaries_dict = {s.id: s for s in job_summaries};
\* summaries_dict[job_id] is the last summary that carries the id
SummaryOf(summaries, job_id) ==
    summaries[CHOOSE k \in 1..Len(summaries) :
                  /\ summaries[k].id = job_id
                  /\ \A j \in (k + 1)..Len(summaries) : summaries[j].id # job_id]

\* db_operations.py 200: feedbacks_dict = {f.id: f for f in job_feedbacks}
FeedbackOf(feedbacks, job_id) ==
    feedbacks[CHOOSE k \in 1..Len(feedbacks) :
                  /\ feedbacks[k].job_id = job_id
                  /\ \A j \in (k + 1)..Len(feedbacks) : feedbacks[j].job_id # job_id]

\* db_operations.py 203-210: the keys of summaries_dict in insertion order,
\* those that are keys of feedbacks_dict are saved
RECURSIVE SaveAnalyses(_, _, _, _)
SaveAnalyses(jobanalysis, keys, summaries, feedbacks) ==
    IF keys = <<>> THEN jobanalysis
    ELSE LET job_id == Head(keys) IN
         SaveAnalyses(
             IF \E k \in 1..Len(feedbacks) : feedbacks[k].job_id = job_id
               THEN save_job_analysis(jobanalysis, job_id,
                                      SummaryOf(summaries, job_id),
                                      FeedbackOf(feedbacks, job_id))
               ELSE jobanalysis,
             Tail(keys), summaries, feedbacks)

\* db_operations.py 171-215: the search history row, the listings, the
\* analyses, then the commit
save_workflow_results(store, job_list, summaries, feedbacks) ==
    [searchhistory |-> store.searchhistory + 1,
     joblisting |-> SaveListings(store.joblisting, job_list),
     jobanalysis |-> SaveAnalyses(store.jobanalysis, DictKeys(summaries),
                                  summaries, feedbacks)]

\* db_operations.py 190-213: what the session holds, flushed or pending, when
\* a statement of the try block raises: nothing yet, the search history row,
\* that and the first listings, or all of these and the first analyses (the
\* commit being the last statement that can raise)
SessionAtRaise(store, job_list, summaries, feedbacks) ==
    {store}
    \cup {[searchhistory |-> store.searchhistory + 1,
           joblisting |-> SaveListings(store.joblisting, SubSeq(job_list, 1, k)),
           jobanalysis |-> store.jobanalysis] : k \in 0..Len(job_list)}
    \cup {[searchhistory |-> store.searchhistory + 1,
           joblisting |-> SaveListings(store.joblisting, job_list),
           jobanalysis |-> SaveAnalyses(store.jobanalysis,
                                        SubSeq(DictKeys(summaries), 1, k),
                                        summaries, feedbacks)] :
              k \in 0..Len(DictKeys(summaries))}

RollbackKeepsFlushed(committed, session) == session

\* db_operations.py 216-219: session.rollback() ends the transaction, the
\* tables hold what was committed before the call
Rollback(committed, session) == committed

\* api.py 198-212: save_workflow_results in its own try block; when it
\* raises, its session.rollback() (db_operations.py 217) leaves the tables
\* as they were
SaveResults ==
    /\ reqPc = "save"
    /\ \/ /\ db' = save_workflow_results(db, final_state.jobs,
                                          final_state.job_summaries,
                                          final_state.job_feedbacks)
          /\ dbSaved' = TRUE
          /\ reqPc' = "respond"
          /\ UNCHANGED dbErrorLogged
       \/ /\ \E session \in SessionAtRaise(db, final_state.jobs,
                                              final_state.job_summaries,
                                              final_state.job_feedbacks) :
                db' = Rollback(db, session)
          /\ dbErrorLogged' = TRUE
          /\ reqPc' = OnDbError
          /\ UNCHANGED dbSaved
    /\ UNCHANGED <<caller, filenameOk, tempFile, temp_resume_path, unlinkCalled,
                   httpStatus, response>>
    /\ UNCHANGED <<pollVars, inputVars, runsVars, limitVars, runVars, chanVars, jdVars, fbVars>>

\* api.py 214-247: the response is built from final_state
BuildResponse ==
    /\ reqPc = "respond"
    /\ IF final_state.set /\ final_state.resume_fields # "unset"
         THEN /\ response' = [success |-> TRUE,
                              job_summaries |-> final_state.job_summaries,
                              job_feedbacks |-> final_state.job_feedbacks,
                              resume_fields |-> final_state.resume_fields]
              /\ httpStatus' = 200
              /\ reqPc' = "cleanup"
         ELSE /\ reqPc' = "error"
              /\ UNCHANGED <<response, httpStatus>>
    /\ UNCHANGED <<caller, filenameOk, tempFile, temp_resume_path, unlinkCalled,
                   dbSaved, dbErrorLogged>>
    /\ UNCHANGED <<pollVars, inputVars, dbVars, runsVars, limitVars, runVars, chanVars, jdVars, fbVars>>

\* api.py 249-254: any exception of the try block becomes HTTPException(500)
HandleError ==
    /\ reqPc = "error"
    /\ httpStatus' = 500
    /\ reqPc' = "cleanup"
    /\ UNCHANGED <<caller, filenameOk, tempFile, temp_resume_path, unlinkCalled,
                   response, dbSaved, dbErrorLogged>>
    /\ UNCHANGED <<pollVars, inputVars, dbVars, runsVars, limitVars, runVars, chanVars, jdVars, fbVars>>

\* api.py 256-263: the finally block; a failing unlink is logged only
Cleanup ==
    /\ reqPc = "cleanup"
    /\ reqPc' = "done"
    /\ IF temp_resume_path # "None" /\ tempFile = "exists"
         THEN /\ unlinkCalled' = TRUE
              /\ tempFile' \in {"deleted", "exists"}
         ELSE UNCHANGED <<tempFile, unlinkCalled>>
    /\ UNCHANGED <<caller, filenameOk, temp_resume_path, httpStatus, response, dbSaved, dbErrorLogged>>
    /\ UNCHANGED <<pollVars, inputVars, dbVars, runsVars, limitVars, runVars, chanVars, jdVars, fbVars>>

\* ------------------------------------------------------------------ Spec
Next ==
    \/ ValidateFile
    \/ Invoke
    \/ job_searching_node
    \/ resume_text_extractor
    \/ extract_fields_from_resume
    \/ extract_fields_from_job_desc
    \/ Feedback_and_similarity
    \/ AfterTick
    \/ PanicOrProceed
    \/ SaveResults
    \/ BuildResponse
    \/ HandleError
    \/ Cleanup

Spec == Init /\ [][Next]_vars

\* ------------------------------------ the summary node, scheduled repeatedly
\* extract_fields_from_job_desc on its own: the listings are in the state, the
\* node is executed, its summaries are reduced into job_summaries, and it is
\* executed again on the same state and the same visited_ids set
InitSummarize ==
    /\ caller = "direct"
    /\ filenameOk = TRUE
    /\ reqPc = "running"
    /\ tempFile = "none"
    /\ temp_resume_path = "None"
    /\ unlinkCalled = FALSE
    /\ httpStatus = 0
    /\ response = NoResponse
    /\ dbSaved = FALSE
    /\ dbErrorLogged = FALSE
    /\ db = EmptyDb
    /\ runNo = 1
    /\ prevVisited = {}
    /\ seedVisited \in SUBSET Ids
    /\ seedFeedback = {}
    /\ resume = "none"
    /\ searchOut \in Lists
    /\ llmLimit = {}
    /\ limitSeen = [called |-> FALSE, limit |-> {}]
    /\ outcome = "running"
    /\ failedNode = "none"
    /\ runningAtError = {}
    /\ final_state = NoState
    /\ tasks = {"extract_fields_from_job_desc"}
    /\ status = [n \in Nodes |-> IF n = "extract_fields_from_job_desc"
                                   THEN "RUNNING" ELSE "PENDING"]
    /\ execCount = [n \in Nodes |-> IF n = "extract_fields_from_job_desc" THEN 1 ELSE 0]
    /\ ret = [n \in Nodes |-> <<>>]
    /\ written = {"jobs"}
    /\ jobs = searchOut
    /\ resume_text = "unset"
    /\ resume_fields = "unset"
    /\ job_summaries = <<>>
    /\ job_feedbacks = <<>>
    /\ visited_ids = seedVisited
    /\ visited_ids_feedback = {}
    /\ jd_i = 1
    /\ job_summary_model_list = <<>>
    /\ fb_i = 1
    /\ job_feedback_model_list = <<>>
    /\ invoked = [x \in Ids |-> 0]
    /\ fbInvoked = [x \in Ids |-> 0]
    /\ PollIdle

\* the returned 'job_summaries' list is reduced into the channel
MergeSummaries ==
    /\ tasks = {"extract_fields_from_job_desc"}
    /\ StepComplete
    /\ job_summaries' = Reduce(job_summaries, ret["extract_fields_from_job_desc"])
    /\ ret' = [n \in Nodes |-> <<>>]
    /\ tasks' = {}
    /\ UNCHANGED <<pollVars, reqVars, inputVars, dbVars, runsVars, limitVars, jdVars, fbVars>>
    /\ UNCHANGED <<outcome, failedNode, runningAtError, final_state, status, execCount>>
    /\ UNCHANGED <<written, jobs, resume_text, resume_fields, job_feedbacks,
                   visited_ids, visited_ids_feedback>>

\* the node is scheduled once more
Reschedule ==
    /\ tasks = {}
    /\ execCount["extract_fields_from_job_desc"] < MaxExec
    /\ Launch({"extract_fields_from_job_desc"})
    /\ UNCHANGED <<pollVars, reqVars, inputVars, dbVars, runsVars, limitVars, chanVars>>
    /\ UNCHANGED <<outcome, failedNode, runningAtError, final_state, ret, invoked, fbInvoked>>

NextSummarize ==
    \/ extract_fields_from_job_desc
    \/ MergeSummaries
    \/ Reschedule

SpecSummarize == InitSummarize /\ [][NextSummarize]_vars

\* ------------------------------- one Workflow instance, invoked run after run
\* a caller that holds one Workflow instance (api.py 58-82: get_workflow
\* hands every request the same one) and calls its app.invoke again, every
\* time with two new empty sets (api.py 187-188, main.py 38-39)
InitRuns ==
    /\ Init
    /\ caller = "direct"
    /\ seedVisited = {}
    /\ seedFeedback = {}

\* the run before has ended (completed or failed); invoke is called again on
\* the same instance with the initial_state of the next run.  The executor
\* of the ended call is gone, the caller's final_state is not yet assigned.
InvokeAgain ==
    /\ caller = "direct"
    /\ reqPc = "done"
    /\ runNo < MaxRuns
    /\ runNo' = runNo + 1
    /\ seedVisited' = {}
    /\ seedFeedback' = {}
    /\ searchOut' \in Lists
    /\ prevVisited' = (visited_ids \cup visited_ids_feedback) \cap SeqIds(searchOut')
    /\ reqPc' = "running"
    /\ outcome' = "running"
    /\ final_state' = NoState
    /\ visited_ids' = ChannelAtStart(visited_ids, seedVisited')
    /\ visited_ids_feedback' = ChannelAtStart(visited_ids_feedback, seedFeedback')
    /\ written' = ChannelAtStart(written, {})
    /\ jobs' = ChannelAtStart(jobs, <<>>)
    /\ resume_text' = ChannelAtStart(resume_text, "unset")
    /\ resume_fields' = ChannelAtStart(resume_fields, "unset")
    /\ job_summaries' = ChannelAtStart(job_summaries, <<>>)
    /\ job_feedbacks' = ChannelAtStart(job_feedbacks, <<>>)
    /\ tasks' = Triggered({START})
    /\ status' = [n \in Nodes |-> IF n \in Triggered({START}) THEN "RUNNING" ELSE "PENDING"]
    /\ execCount' = [n \in Nodes |-> IF n \in Triggered({START}) THEN 1 ELSE 0]
    /\ ret' = [n \in Nodes |-> <<>>]
    /\ failedNode' = "none"
    /\ runningAtError' = {}
    /\ llmLimit' = {}
    /\ limitSeen' = [called |-> FALSE, limit |-> {}]
    /\ jd_i' = 1
    /\ job_summary_model_list' = <<>>
    /\ fb_i' = 1
    /\ job_feedback_model_list' = <<>>
    /\ invoked' = [x \in Ids |-> 0]
    /\ fbInvoked' = [x \in Ids |-> 0]
    /\ UNCHANGED <<caller, filenameOk, tempFile, temp_resume_path, unlinkCalled,
                   httpStatus, response, dbSaved,
                   dbErrorLogged, db, resume, pollVars>>

NextRuns ==
    \/ Invoke
    \/ job_searching_node
    \/ resume_text_extractor
    \/ extract_fields_from_resume
    \/ extract_fields_from_job_desc
    \/ Feedback_and_similarity
    \/ AfterTick
    \/ PanicOrProceed
    \/ InvokeAgain

SpecRuns == InitRuns /\ [][NextRuns]_vars

\* ------------------------------------------- one run that is not abandoned
\* main.py 29-63: one invoke call on a Workflow
NextLive ==
    \/ Invoke
    \/ job_searching_node
    \/ resume_text_extractor
    \/ extract_fields_from_resume
    \/ extract_fields_from_job_desc
    \/ Feedback_and_similarity
    \/ AfterTick
    \/ PanicOrProceed

\* the caller does call invoke, every adapter call of a running node ends by
\* returning or raising, and the executor goes on when it can
Fairness ==
    /\ WF_vars(Invoke)
    /\ WF_vars(job_searching_node)
    /\ WF_vars(resume_text_extractor)
    /\ WF_vars(extract_fields_from_resume)
    /\ WF_vars(extract_fields_from_job_desc)
    /\ WF_vars(Feedback_and_similarity)
    /\ WF_vars(AfterTick)
    /\ WF_vars(PanicOrProceed)

SpecLive == InitRuns /\ [][NextLive]_vars /\ Fairness

\* ------------------------------------------------------------ job_scraping
ExpiredStrictlyAfter(elapsed) == elapsed > wait_seconds

\* scraping_tools.py 146-148
Expired(elapsed) == elapsed >= wait_seconds

\* scraping_tools.py 157-165, 130: linkedin_scrapper starts the actor and
\* yields the dataset id, or raises; fetch_dataset_items_with_wait is entered
job_scraping_call ==
    /\ pollPc = "idle"
    /\ \/ /\ pollPc' = "get"
          /\ start_time' = now
       \/ /\ pollPc' = "raised"
          /\ UNCHANGED start_time
    /\ UNCHANGED <<now, data, polls, jobs_data>>
    /\ UNCHANGED <<reqVars, dbVars, runsVars, inputVars, limitVars, runVars, chanVars, jdVars, fbVars>>

\* scraping_tools.py 132-141: one requests.get, which takes some time and
\* returns; raise_for_status raises on an error status, else the items read
\* so far are in data
poll_get ==
    /\ pollPc = "get"
    /\ polls' = polls + 1
    /\ \E d \in 0..MaxRequestTime : now' = now + d
    /\ \/ /\ pollPc' = "raised"
          /\ UNCHANGED data
       \/ /\ data' \in Lists
          /\ pollPc' = "check"
    /\ UNCHANGED <<start_time, jobs_data>>
    /\ UNCHANGED <<reqVars, dbVars, runsVars, inputVars, limitVars, runVars, chanVars, jdVars, fbVars>>

\* scraping_tools.py 143-150: `if data: return data`, else the time spent is
\* compared with the budget
poll_check ==
    /\ pollPc = "check"
    /\ IF data # <<>>
         THEN pollPc' = "fetched"
         ELSE IF Expired(now - start_time)
                THEN pollPc' = "fetched"
                ELSE pollPc' = "sleep"
    /\ UNCHANGED <<now, start_time, data, polls, jobs_data>>
    /\ UNCHANGED <<reqVars, dbVars, runsVars, inputVars, limitVars, runVars, chanVars, jdVars, fbVars>>

\* scraping_tools.py 151: time.sleep(poll_interval)
poll_sleep ==
    /\ pollPc = "sleep"
    /\ now' = now + poll_interval
    /\ pollPc' = "get"
    /\ UNCHANGED <<start_time, data, polls, jobs_data>>
    /\ UNCHANGED <<reqVars, dbVars, runsVars, inputVars, limitVars, runVars, chanVars, jdVars, fbVars>>

\* scraping_tools.py 172-177: the list is logged about and returned, empty or not
job_scraping_return ==
    /\ pollPc = "fetched"
    /\ jobs_data' = [returned |-> TRUE, items |-> data]
    /\ pollPc' = "returned"
    /\ UNCHANGED <<now, start_time, data, polls>>
    /\ UNCHANGED <<reqVars, dbVars, runsVars, inputVars, limitVars, runVars, chanVars, jdVars, fbVars>>

\* one call of job_scraping, outside any run of the workflow
InitPoll ==
    /\ Init
    /\ caller = "direct"
    /\ seedVisited = {}
    /\ seedFeedback = {}
    /\ searchOut = <<>>

NextPoll ==
    \/ job_scraping_call
    \/ poll_get
    \/ poll_check
    \/ poll_sleep
    \/ job_scraping_return

\* every request returns, the sleep ends, the interpreter goes on
FairnessPoll ==
    /\ WF_vars(job_scraping_call)
    /\ WF_vars(poll_get)
    /\ WF_vars(poll_check)
    /\ WF_vars(poll_sleep)
    /\ WF_vars(job_scraping_return)

SpecPoll == InitPoll /\ [][NextPoll]_vars /\ FairnessPoll

\* --------------------------------- save_workflow_results, request after request
\* the states a completed run hands to process_job_search: the listings of
\* the search, one summary per distinct id, one scored feedback per summary
\* (the feedbacks of one run with one score)
Artifacts ==
    {[set |-> TRUE,
      jobs |-> l,
      resume_text |-> TextOf(HardCodedResumePath),
      resume_fields |-> "fields",
      job_summaries |-> [k \in 1..Len(FirstNew(l, {})) |-> [id |-> FirstNew(l, {})[k]]],
      job_feedbacks |-> [k \in 1..Len(FirstNew(l, {})) |->
                            [job_id |-> FirstNew(l, {})[k],
                             similarity |-> score]],
      visited_ids |-> SeqIds(l),
      visited_ids_feedback |-> SeqIds(l)] : l \in Lists, score \in SimVals}

\* process_job_search after invoke has returned, on the tables of init_db
InitSave ==
    /\ caller = "api"
    /\ filenameOk = TRUE
    /\ reqPc = "save"
    /\ tempFile = "exists"
    /\ temp_resume_path = "tmp"
    /\ unlinkCalled = FALSE
    /\ httpStatus = 0
    /\ response = NoResponse
    /\ dbSaved = FALSE
    /\ dbErrorLogged = FALSE
    /\ db = EmptyDb
    /\ runNo = 1
    /\ prevVisited = {}
    /\ seedVisited = {}
    /\ seedFeedback = {}
    /\ resume = "resumeX"
    /\ final_state \in Artifacts
    /\ searchOut = final_state.jobs
    /\ llmLimit = {}
    /\ limitSeen = [called |-> FALSE, limit |-> {}]
    /\ outcome = "completed"
    /\ failedNode = "none"
    /\ runningAtError = {}
    /\ tasks = {}
    /\ status = [n \in Nodes |-> "DONE"]
    /\ execCount = [n \in Nodes |-> 1]
    /\ ret = [n \in Nodes |-> <<>>]
    /\ written = {"jobs", "resume_text", "resume_fields"}
    /\ jobs = final_state.jobs
    /\ resume_text = final_state.resume_text
    /\ resume_fields = final_state.resume_fields
    /\ job_summaries = final_state.job_summaries
    /\ job_feedbacks = final_state.job_feedbacks
    /\ visited_ids = final_state.visited_ids
    /\ visited_ids_feedback = final_state.visited_ids_feedback
    /\ jd_i = 1
    /\ job_summary_model_list = <<>>
    /\ fb_i = 1
    /\ job_feedback_model_list = <<>>
    /\ invoked = [x \in Ids |-> 0]
    /\ fbInvoked = [x \in Ids |-> 0]
    /\ PollIdle

\* the next request reaches its save with the state of its own run
SaveRequest ==
    /\ reqPc = "respond"
    /\ db.searchhistory < MaxSaves
    /\ reqPc' = "save"
    /\ \E next_state \in Artifacts :
          /\ final_state' = next_state
          /\ searchOut' = next_state.jobs
          /\ jobs' = next_state.jobs
          /\ job_summaries' = next_state.job_summaries
          /\ job_feedbacks' = next_state.job_feedbacks
          /\ visited_ids' = next_state.visited_ids
          /\ visited_ids_feedback' = next_state.visited_ids_feedback
    /\ dbSaved' = FALSE
    /\ dbErrorLogged' = FALSE
    /\ UNCHANGED <<caller, filenameOk, tempFile, temp_resume_path, unlinkCalled,
                   httpStatus, response, db, runsVars>>
    /\ UNCHANGED <<seedVisited, seedFeedback, resume, limitVars, jdVars, fbVars>>
    /\ UNCHANGED <<outcome, failedNode, runningAtError, tasks, status, execCount, ret>>
    /\ UNCHANGED <<written, resume_text, resume_fields, pollVars>>

NextSave ==
    \/ SaveResults
    \/ SaveRequest

SpecSave == InitSave /\ [][NextSave]_vars

\* ================================================================ claims
JOIN == "Feedback_and_similarity"
JD == "extract_fields_from_job_desc"
EFR == "extract_fields_from_resume"
JSN == "job_searching_node"
RTE == "resume_text_extractor"

NoDuplicates(ids) == \A j, k \in 1..Len(ids) : ids[j] = ids[k] => j = k

SummaryIdSeq(s) == [k \in 1..Len(s) |-> s[k].id]
FeedbackIdSeq(s) == [k \in 1..Len(s) |-> s[k].job_id]

\* C1: the join node Feedback_and_similarity is launched at most once in a
\* run, it is not launched before extract_fields_from_job_desc and
\* extract_fields_from_resume are both DONE and their results applied, and a
\* run that completes has launched it exactly once.
C1_JoinOnceAfterBoth ==
    /\ execCount[JOIN] <= 1
    /\ status[JOIN] # "PENDING" =>
          /\ status[JD] = "DONE" /\ status[EFR] = "DONE"
          /\ ret[JD] = <<>> /\ ret[EFR] = <<>>
          /\ "resume_fields" \in written
    /\ outcome = "completed" => execCount[JOIN] = 1 /\ status[JOIN] = "DONE"

C1_Witness ==
    /\ outcome = "completed"
    /\ execCount[JOIN] = 1
    /\ Len(job_feedbacks) = 2

\* C2: the state a completed run returns is a function of the seeded sets and
\* of the listings alone: whatever the interleaving of the two branches, it is
\* the listings, the resume text and fields, one summary per listing id that
\* was not seeded (in listing order), one feedback per summary id that was
\* not seeded (each with the score the matching adapter gave), and the seeded
\* sets grown by those ids.
C2_ExpectedSummaries == FirstNew(searchOut, seedVisited)
C2_ExpectedFeedbacks == FirstNew(C2_ExpectedSummaries, seedFeedback)
C2_FinalStateDeterministic ==
    outcome = "completed" =>
        [final_state EXCEPT !.job_feedbacks = FeedbackIdSeq(@)] =
            [set |-> TRUE,
             jobs |-> searchOut,
             resume_text |-> TextOf(HardCodedResumePath),
             resume_fields |-> "fields",
             job_summaries |-> [k \in 1..Len(C2_ExpectedSummaries) |->
                                    [id |-> C2_ExpectedSummaries[k]]],
             job_feedbacks |-> C2_ExpectedFeedbacks,
             visited_ids |-> seedVisited \cup SeqIds(searchOut),
             visited_ids_feedback |-> seedFeedback \cup SeqIds(C2_ExpectedSummaries)]

\* a completed run over two listings, both summarized and given feedback
C2_Witness ==
    /\ outcome = "completed"
    /\ Len(searchOut) = 2
    /\ Len(final_state.job_feedbacks) = 2

\* C3: with the node scheduled repeatedly on the same visited_ids set, over any
\* list of listings (ids may repeat), the summarization adapter is never
\* called twice for an id; after every execution it has been called exactly
\* once for each distinct listing id that was not seeded, and when no
\* listing id was seeded job_summaries has as many entries as there are
\* distinct listing ids.
C3_SummarizedOncePerId ==
    /\ \A x \in Ids : invoked[x] <= 1
    /\ tasks = {} =>
          /\ \A x \in SeqIds(jobs) \ seedVisited : invoked[x] = 1
          /\ \A x \in Ids \ (SeqIds(jobs) \ seedVisited) : invoked[x] = 0
          /\ SeqIds(jobs) \cap seedVisited = {} =>
                /\ Len(job_summaries) = Cardinality(SeqIds(jobs))
                /\ SummaryIds(job_summaries) = SeqIds(jobs)

\* the listing A occurs twice and the node has been executed twice
C3_Witness ==
    /\ tasks = {}
    /\ execCount[JD] = 2
    /\ jobs = <<"A", "A">>
    /\ seedVisited = {}
    /\ job_summaries = <<[id |-> "A"]>>

\* C4: a completed run seeded with the visited_ids set S over listings L has
\* summaries for exactly the ids of L that are not in S, one each, has called
\* the summarization adapter for none of the ids of S, and ends with
\* visited_ids = S \cup L.
C4_SeededDedup ==
    outcome = "completed" =>
        /\ SummaryIds(final_state.job_summaries) = SeqIds(searchOut) \ seedVisited
        /\ Len(final_state.job_summaries) = Cardinality(SeqIds(searchOut) \ seedVisited)
        /\ \A x \in seedVisited : invoked[x] = 0
        /\ final_state.visited_ids = seedVisited \cup SeqIds(searchOut)

C4_Witness ==
    /\ outcome = "completed"
    /\ seedVisited = {"A"}
    /\ searchOut = <<"A", "C">>
    /\ final_state.job_summaries = <<[id |-> "C"]>>
    /\ final_state.visited_ids = {"A", "C"}

\* C10: in every state no id occurs twice in job_summaries and none occurs
\* twice in job_feedbacks (in the channels, in the lists the nodes are
\* building and in the state returned); a completed unseeded run over the
\* listings A, B has exactly two summaries, with ids A and B.
C10_NoDuplicateIds ==
    /\ NoDuplicates(SummaryIdSeq(job_summaries \o job_summary_model_list))
    /\ NoDuplicates(FeedbackIdSeq(job_feedbacks \o job_feedback_model_list))
    /\ final_state.set =>
          /\ NoDuplicates(SummaryIdSeq(final_state.job_summaries))
          /\ NoDuplicates(FeedbackIdSeq(final_state.job_feedbacks))
    /\ (outcome = "completed" /\ SeqIds(searchOut) = {"A", "B"} /\ seedVisited = {}) =>
          /\ Len(final_state.job_summaries) = 2
          /\ SummaryIds(final_state.job_summaries) = {"A", "B"}

C10_Witness ==
    /\ outcome = "completed"
    /\ searchOut = <<"A", "B">>
    /\ seedVisited = {}
    /\ Len(final_state.job_summaries) = 2
    /\ runningAtError = {}

C6_FailFast ==
    [][/\ (\E n \in Nodes : status[n] = "ERROR") => execCount' = execCount
       /\ (\E n \in Nodes \ {JOIN} : status'[n] = "ERROR") => execCount'[JOIN] = 0]_vars

\* the search node raised while resume_text_extractor was running; that node
\* then returned, which would make extract_fields_from_resume ready, and the
\* run ended without launching it
C6_Witness ==
    /\ outcome = "failed"
    /\ failedNode = JSN
    /\ runningAtError = {RTE}
    /\ status[RTE] = "DONE"
    /\ status[EFR] = "PENDING"
    /\ execCount[EFR] = 0

Clamp(v) == IF v > 3 THEN 3 ELSE IF v < 1 THEN 1 ELSE v

\* C9: whatever limit the structured query carries, the listing retrieval is
\* called with that limit clamped into [1,3], and the node does not fail on
\* it (1000 reaches the retrieval as 3).
C9_LimitClampedBeforeRetrieval ==
    \A v \in llmLimit :
        status[JSN] # "RUNNING" =>
            /\ limitSeen.called
            /\ limitSeen.limit = {Clamp(v)}

\* C11: within a run the two dedup sets only grow: no step of a run removes
\* an id from visited_ids or from visited_ids_feedback, and from the start of
\* the run on every seeded id is a member.
C11_DedupSetsOnlyGrow ==
    [][/\ visited_ids \subseteq visited_ids'
       /\ visited_ids_feedback \subseteq visited_ids_feedback'
       /\ outcome' # "init" =>
             /\ seedVisited \subseteq visited_ids'
             /\ seedFeedback \subseteq visited_ids_feedback']_vars

\* both sets were seeded, both have grown by the id C, and the run completed
C11_Witness ==
    /\ outcome = "completed"
    /\ seedVisited = {"A"}
    /\ seedFeedback = {"B"}
    /\ visited_ids = {"A", "B", "C"}
    /\ visited_ids_feedback = {"B", "C"}

\* C12: the two dedup stages are independent.  A step that changes visited_ids
\* is the seeding or a step of extract_fields_from_job_desc and leaves
\* visited_ids_feedback alone; a step that changes visited_ids_feedback is the
\* seeding or a step of Feedback_and_similarity and leaves visited_ids alone.
\* A listing is summarized exactly when its id is not in visited_ids, and a
\* summary is given feedback exactly when its id is not in
\* visited_ids_feedback, although by then every summary id is in visited_ids.
C12_StagesIndependent ==
    [][/\ visited_ids' # visited_ids =>
             \/ reqPc = "invoke"
             \/ /\ status[JD] = "RUNNING"
                /\ visited_ids_feedback' = visited_ids_feedback
                /\ fbVars' = fbVars
       /\ visited_ids_feedback' # visited_ids_feedback =>
             \/ reqPc = "invoke"
             \/ /\ status[JOIN] = "RUNNING"
                /\ visited_ids' = visited_ids
                /\ jdVars' = jdVars
       /\ (status[JD] = "RUNNING" /\ jd_i' = jd_i + 1) =>
             (Len(job_summary_model_list') = Len(job_summary_model_list) + 1
                <=> jobs[jd_i] \notin visited_ids)
       /\ (status[JOIN] = "RUNNING" /\ fb_i' = fb_i + 1) =>
             /\ job_summaries[fb_i].id \in visited_ids
             /\ Len(job_feedback_model_list') = Len(job_feedback_model_list) + 1
                   <=> job_summaries[fb_i].id \notin visited_ids_feedback
       /\ outcome' = "completed" =>
             /\ SummaryIds(job_summaries') = SeqIds(searchOut) \ seedVisited
             /\ FeedbackIds(job_feedbacks') = SummaryIds(job_summaries') \ seedFeedback]_vars

\* B is seeded in visited_ids_feedback only and is summarized; C is in
\* visited_ids when the feedback stage reads it and is given feedback
C12_Witness ==
    /\ outcome = "completed"
    /\ seedVisited = {}
    /\ seedFeedback = {"B"}
    /\ SummaryIds(final_state.job_summaries) = {"B", "C"}
    /\ FeedbackIds(final_state.job_feedbacks) = {"C"}
    /\ visited_ids = {"B", "C"}

C19_ConsumerAfterProducer ==
    /\ status[JD] # "PENDING" =>
          /\ status[JSN] = "DONE"
          /\ "jobs" \in written
          /\ jobs = searchOut
    /\ status[EFR] # "PENDING" =>
          /\ status[RTE] = "DONE"
          /\ "resume_text" \in written
          /\ resume_text # "unset"
    /\ status[JOIN] # "PENDING" =>
          /\ status[JD] = "DONE" /\ status[EFR] = "DONE"
          /\ "resume_fields" \in written
          /\ resume_fields # "unset"
          /\ SummaryIds(job_summaries) = SeqIds(jobs) \ seedVisited

\* the two consumers of the second superstep are running on applied inputs
C19_Witness ==
    /\ status[JD] = "RUNNING"
    /\ status[EFR] = "RUNNING"
    /\ jobs = <<"A", "B">>
    /\ "resume_text" \in written

C18_NonPdfRejectedWith400 ==
    (caller = "api" /\ ~filenameOk) =>
        /\ outcome = "init"
        /\ \A n \in Nodes : execCount[n] = 0
        /\ ~dbSaved
        /\ httpStatus \in {0, 400}
        /\ reqPc = "done" => httpStatus = 400

\* C15: the resume text of a run is the text of the document that the
\* seeded 'resume_path' designates (for process_job_search the uploaded
\* file): what resume_text_extractor returns, what the state holds and what
\* the caller reads back is the text of that document.
C15_TextOfSeededDocument ==
    resume \in Docs =>
        /\ status[RTE] = "DONE" /\ ret[RTE] # <<>> => ret[RTE] = <<TextOf(resume)>>
        /\ "resume_text" \in written => resume_text = TextOf(resume)
        /\ final_state.set => final_state.resume_text = TextOf(resume)

\* C17: every feedback entry, in job_feedbacks, in the list the node is
\* building and in the state returned, carries a similarity in 0..100,
\* whatever the matching adapter answered.
C17_SimilarityInRange ==
    /\ \A k \in 1..Len(job_feedbacks) : job_feedbacks[k].similarity \in 0..100
    /\ \A k \in 1..Len(job_feedback_model_list) :
          job_feedback_model_list[k].similarity \in 0..100
    /\ final_state.set =>
          \A k \in 1..Len(final_state.job_feedbacks) :
              final_state.job_feedbacks[k].similarity \in 0..100

ListingIdSeq(t) == [k \in 1..Len(t) |-> t[k].id]
AnalysisIdSeq(t) == [k \in 1..Len(t) |-> t[k].job_id]

C16_RunsIsolated ==
    [][/\ (reqPc # "running" /\ reqPc' = "running") =>
             /\ visited_ids' = seedVisited'
             /\ visited_ids_feedback' = seedFeedback'
             /\ written' = {}
             /\ jobs' = <<>>
             /\ resume_text' = "unset" /\ resume_fields' = "unset"
             /\ job_summaries' = <<>> /\ job_feedbacks' = <<>>
       /\ (runNo' > 1 /\ outcome' = "completed") =>
             /\ \A x \in Ids :
                   /\ invoked'[x] = (IF x \in SeqIds(searchOut') \ seedVisited' THEN 1 ELSE 0)
                   /\ fbInvoked'[x] = invoked'[x]
             /\ final_state'.jobs = searchOut'
             /\ SummaryIdSeq(final_state'.job_summaries) = FirstNew(searchOut', seedVisited')
             /\ FeedbackIdSeq(final_state'.job_feedbacks) =
                   FirstNew(FirstNew(searchOut', seedVisited'), seedFeedback')
             /\ final_state'.visited_ids = seedVisited' \cup SeqIds(searchOut')
             /\ final_state'.visited_ids_feedback = seedFeedback' \cup SeqIds(searchOut')
       /\ (runNo' > 1 /\ outcome' = "failed") => final_state' = NoState]_vars

\* a second run on the instance has completed over the listings A and B,
\* both of which the first run had left in a dedup set: both were summarized
\* and given feedback again
C16_Witness ==
    /\ runNo = 2
    /\ outcome = "completed"
    /\ searchOut = <<"A", "B">>
    /\ prevVisited = {"A", "B"}
    /\ SummaryIds(final_state.job_summaries) = {"A", "B"}
    /\ FeedbackIds(final_state.job_feedbacks) = {"A", "B"}

\* C21: every node is executed at most once in a run, and its status only
\* moves forward: from PENDING to RUNNING when it is launched, from RUNNING to
\* DONE or to ERROR when it returns or raises.  DONE and ERROR are final: a
\* node that raised is not launched again and calls no adapter any more.
C21_StatusOnlyForward ==
    [][/\ \A n \in Nodes :
             /\ execCount'[n] <= 1
             /\ status'[n] # status[n] =>
                   \/ status[n] = "PENDING" /\ status'[n] = "RUNNING"
                   \/ status[n] = "RUNNING" /\ status'[n] \in {"DONE", "ERROR"}
             /\ status[n] \in {"DONE", "ERROR"} => execCount'[n] = execCount[n]
       /\ status[JD] = "ERROR" => invoked' = invoked
       /\ status[JOIN] = "ERROR" => fbInvoked' = fbInvoked]_vars

\* the run has ended after extract_fields_from_job_desc raised on its second
\* listing; every node was launched at most once
C21_Witness ==
    /\ outcome = "failed"
    /\ status[JD] = "ERROR"
    /\ status[JSN] = "DONE"
    /\ status[JOIN] = "PENDING"
    /\ execCount[JD] = 1
    /\ invoked = [x \in Ids |-> IF x \in {"A", "B"} THEN 1 ELSE 0]

Terminal == {"completed", "failed"}

\* C22: when every adapter call returns or raises, a run that was started
\* reaches a terminal outcome and keeps it: COMPLETED only with all five nodes
\* DONE and none in ERROR, FAILED only with a node in ERROR; a run is never
\* RUNNING forever and never changes from one terminal outcome to the other.
C22_RunTerminates ==
    /\ (reqPc = "invoke") ~> (outcome \in Terminal)
    /\ (outcome = "running") ~> (outcome \in Terminal)
    /\ [](outcome = "completed" =>
             /\ \A n \in Nodes : status[n] = "DONE"
             /\ failedNode = "none")
    /\ [](outcome = "failed" =>
             /\ \E n \in Nodes : status[n] = "ERROR"
             /\ failedNode # "none"
             /\ status[JOIN] # "DONE")
    /\ [][(outcome \in Terminal) => (outcome' = outcome)]_vars

\* a run over two listings has reached COMPLETED
C22_Witness ==
    /\ outcome = "completed"
    /\ Len(searchOut) = 2
    /\ \A n \in Nodes : status[n] = "DONE" /\ execCount[n] = 1
    /\ tasks = {}

\* C23: the state a running node is handed holds only what the caller seeded
\* or what nodes that are DONE have written: while a node of one branch runs,
\* nothing in that state comes from a node that has not completed, the ids a
\* running node of the sibling branch has added to its dedup set included.
C23_NoInFlightWritesVisible ==
    \A n \in Nodes :
        status[n] = "RUNNING" =>
            /\ jobs # <<>> => status[JSN] = "DONE"
            /\ resume_text # "unset" => status[RTE] = "DONE"
            /\ resume_fields # "unset" => status[EFR] = "DONE"
            /\ job_summaries # <<>> => status[JD] = "DONE"
            /\ job_feedbacks = <<>>
            /\ (n # JD /\ status[JD] # "DONE") => visited_ids = seedVisited
            /\ (n # JOIN /\ status[JOIN] # "DONE") => visited_ids_feedback = seedFeedback

\* C24: each scalar field has one writer: within a run jobs changes only
\* with the dict of job_searching_node, resume_text only with that of
\* resume_text_extractor, resume_fields only with that of
\* extract_fields_from_resume, visited_ids only in a step of
\* extract_fields_from_job_desc and visited_ids_feedback only in a step of
\* Feedback_and_similarity; the two nodes that hold a dedup set never run
\* together, and a field that was written is not written again.
C24_SingleWriter ==
    [][outcome = "running" =>
          /\ jobs' # jobs =>
                Applied(JSN) /\ jobs' = ret[JSN] /\ "jobs" \notin written
          /\ resume_text' # resume_text =>
                Applied(RTE) /\ resume_text' = ret[RTE][1] /\ "resume_text" \notin written
          /\ resume_fields' # resume_fields =>
                Applied(EFR) /\ resume_fields' = ret[EFR][1] /\ "resume_fields" \notin written
          /\ visited_ids' # visited_ids =>
                /\ status[JD] = "RUNNING" /\ status[JOIN] # "RUNNING"
                /\ jd_i' # jd_i \/ status'[JD] = "ERROR"
                /\ \A n \in Nodes \ {JD} : status'[n] = status[n] /\ ret'[n] = ret[n]
          /\ visited_ids_feedback' # visited_ids_feedback =>
                /\ status[JOIN] = "RUNNING" /\ tasks = {JOIN}
                /\ fb_i' # fb_i \/ status'[JOIN] = "ERROR"]_vars

\* a completed run in which all five scalar fields were written
C24_Witness ==
    /\ outcome = "completed"
    /\ jobs = <<"A", "B">>
    /\ resume_text # "unset" /\ resume_fields = "fields"
    /\ visited_ids = seedVisited \cup {"A", "B"} /\ seedVisited = {}
    /\ visited_ids_feedback = {"A", "B"} /\ seedFeedback = {}

\* C25: Feedback_and_similarity looks an id up in visited_ids_feedback before
\* it calls the matching adapter: the adapter is called at most once for an
\* id in a run, only for the id of a summary and never for an id that is in
\* the set at that moment or was in it when the node started; when the node
\* has completed, job_feedbacks holds one entry for each summary id that was
\* not in the set at the start, in the order of the summaries, and no other.
C25_FeedbackOncePerNewSummary ==
    /\ [](\A x \in Ids :
             /\ fbInvoked[x] <= 1
             /\ fbInvoked[x] = 1 =>
                   /\ x \notin seedFeedback
                   /\ x \in SummaryIds(job_summaries)
                   /\ x \in visited_ids_feedback)
    /\ [](outcome = "completed" =>
             /\ FeedbackIdSeq(job_feedbacks) =
                   FirstNew(SummaryIdSeq(job_summaries), seedFeedback)
             /\ \A x \in Ids : fbInvoked[x] = 1 <=> x \in FeedbackIds(job_feedbacks))
    /\ [][\A x \in Ids :
             fbInvoked'[x] # fbInvoked[x] =>
                /\ status[JOIN] = "RUNNING"
                /\ x \notin visited_ids_feedback
                /\ fbInvoked'[x] = fbInvoked[x] + 1]_vars

\* summaries of A and B reached the node with A seeded as already matched:
\* the adapter was called for B alone
C25_Witness ==
    /\ outcome = "completed"
    /\ seedFeedback = {"A"}
    /\ SummaryIdSeq(job_summaries) = <<"A", "B">>
    /\ fbInvoked["A"] = 0 /\ fbInvoked["B"] = 1
    /\ FeedbackIdSeq(job_feedbacks) = <<"B">>

\* C26: when every request returns, a call of job_scraping ends.  The items of
\* the first poll that has any are returned at once, with no sleep and no
\* request after it; while the polls are empty the function sleeps only as
\* long as less than wait_seconds have passed, and returns the empty list,
\* not an error, at the first empty poll at or after wait_seconds;
\* job_scraping returns what it got, the empty list too.
C26_PollingTerminates ==
    /\ <>(pollPc \in {"returned", "raised"})
    /\ [](pollPc = "sleep" => data = <<>> /\ now - start_time < wait_seconds)
    /\ [](pollPc = "fetched" =>
             \/ data # <<>>
             \/ now - start_time >= wait_seconds)
    /\ [](pollPc = "returned" =>
             /\ jobs_data = [returned |-> TRUE, items |-> data]
             /\ polls >= 1)
    /\ [](pollPc = "raised" => jobs_data = NoData)
    /\ [](polls <= (wait_seconds \div poll_interval) + 1)
    /\ [][/\ (pollPc = "check" /\ data # <<>>) =>
                (pollPc' = "fetched" /\ now' = now /\ polls' = polls /\ data' = data)
          /\ pollPc = "fetched" =>
                (pollPc' = "returned" /\ now' = now /\ polls' = polls)
          /\ pollPc \in {"returned", "raised"} => pollPc' = pollPc]_vars

\* every poll was empty: the empty list was returned as the result, at the
\* moment the budget was used up
C26_Witness ==
    /\ pollPc = "returned"
    /\ jobs_data = [returned |-> TRUE, items |-> <<>>]
    /\ now - start_time = wait_seconds
    /\ polls = 11

\* C27: an id gets into a dedup set during a run only with a successful
\* adapter call: every id of visited_ids that the caller did not seed has a
\* summary, every such id of visited_ids_feedback has a feedback, and the
\* listing (the summary) on which the adapter failed is not in the set.
C27_RecordedOnlyOnSuccess ==
    /\ \A x \in visited_ids \ seedVisited :
           x \in SummaryIds(job_summary_model_list) \cup SummaryIds(ret[JD])
                   \cup SummaryIds(job_summaries)
    /\ \A x \in visited_ids_feedback \ seedFeedback :
           x \in FeedbackIds(job_feedback_model_list) \cup FeedbackIds(ret[JOIN])
                   \cup FeedbackIds(job_feedbacks)
    /\ (status[JD] = "ERROR" /\ jd_i <= Len(jobs)) => jobs[jd_i] \notin visited_ids
    /\ (status[JOIN] = "ERROR" /\ fb_i <= Len(job_summaries)) =>
           job_summaries[fb_i].id \notin visited_ids_feedback

\* C28: save_workflow_results is all or nothing: a call that raises (the
\* caller logs the exception it re-raised) leaves the three tables exactly as
\* they were before the call, and a call that returns has stored the whole
\* of its records.
C28_SaveAllOrNothing ==
    [][reqPc = "save" =>
          /\ dbErrorLogged' => (db' = db /\ ~dbSaved' /\ reqPc' = "respond")
          /\ ~dbErrorLogged' =>
                /\ dbSaved'
                /\ db'.searchhistory = db.searchhistory + 1
                /\ SeqIds(final_state.jobs) \subseteq SeqIds(ListingIdSeq(db'.joblisting))
                /\ FeedbackIds(final_state.job_feedbacks)
                      \subseteq SeqIds(AnalysisIdSeq(db'.jobanalysis))]_vars

\* a save of listings that have no row yet raised after an earlier save had
\* been committed: the tables hold the rows of the earlier save alone
C28_Witness ==
    /\ reqPc = "respond"
    /\ dbErrorLogged /\ ~dbSaved
    /\ db.searchhistory = 1
    /\ ListingIdSeq(db.joblisting) = <<"A">>
    /\ final_state.jobs = <<"B", "A">>

\* C29: process_job_search calls save_workflow_results only once invoke has
\* returned: the tables change, and a save is committed or logged as failed,
\* only in a request whose run is COMPLETED; when the run has FAILED no save
\* is attempted and the tables are as they were.
C29_SaveOnlyAfterCompletedRun ==
    /\ [](reqPc = "save" => (outcome = "completed" /\ final_state.set))
    /\ []((dbSaved \/ dbErrorLogged) => outcome = "completed")
    /\ [](outcome \in {"init", "running", "failed"} =>
             (~dbSaved /\ ~dbErrorLogged /\ db = EmptyDb))
    /\ [][(db' # db \/ dbSaved' # dbSaved \/ dbErrorLogged' # dbErrorLogged) =>
             (reqPc = "save" /\ outcome = "completed" /\ caller = "api")]_vars

\* a request whose run failed in the summarization has been answered with
\* 500: nothing was saved and no save had failed
C29_Witness ==
    /\ caller = "api"
    /\ outcome = "failed" /\ failedNode = JD
    /\ reqPc = "done" /\ httpStatus = 500
    /\ ~dbSaved /\ ~dbErrorLogged /\ db = EmptyDb

\* C30: a request that made its temporary resume file does not finish without
\* having tried to delete it, on whichever path it ends; and the finally
\* block, whether the deletion works or not, leaves the answer of the request
\* as it was.
C30_TempFileDeletionAttempted ==
    /\ (caller = "api" /\ reqPc = "done" /\ tempFile # "none") => unlinkCalled
    /\ (caller = "api" /\ reqPc = "done") => httpStatus = (IF response.success THEN 200 ELSE 500)

====
